---- MODULE Spec2Model ----
(***************************************************************************)
(* Model of the dotfiles reconciliation tool "dot".                        *)
(*                                                                         *)
(* The filesystem is modelled per tracked relative path: the entry at the  *)
(* home root, the regular file at the repository root, the regular file    *)
(* at the backup root, the regular file at a project root (cwd), and one   *)
(* external file that a foreign symlink in home can point at.              *)
(*                                                                         *)
(* The repository holds several revisions of lib/sync.ts.  The current one *)
(* is src/src/lib/sync.ts; the revision that takes a base path / source    *)
(* root / target root is kept in src/README.md lines 198-373 and carries   *)
(* the suffix _r2 here.  Its caller is the orchestrator kept in            *)
(* src/src/lib/github.ts lines 100-550.                                    *)
(*                                                                         *)
(* Two specifications are given.  Spec lets the environment call the       *)
(* library operations in any order on one path.  PassSpec runs one command *)
(* of the command line (a global, local or sync pass, an add, a remove)    *)
(* from start to exit over two paths, with the version-control             *)
(* collaborator as the variable git and the calls made as the variable log.*)
(***************************************************************************)
EXTENDS Naturals, FiniteSets, Sequences, TLC

VARIABLES home, repo, backup, proj, ext, last, git, pass, log

vars == <<home, repo, backup, proj, ext, last, git, pass, log>>

(***************************************************************************)
(* Values                                                                  *)
(***************************************************************************)
\* tracked relative paths (one entry of the category manifest)
Paths == {".zshrc"}

\* paths the version-control collaborator can report
VcsPaths == Paths

\* number of distinguishable file contents the environment starts with
NContents == 2

Content(i) == <<"data", i>>
Contents == {Content(i) : i \in 1..NContents}

\* the content of a file truncated to zero bytes
Empty == Content(0)

FileVals == Contents \cup {Empty}

\* a slot with no file; NoDir: the parent directory is missing as well
Absent == <<"absent", 0>>
NoDir == <<"nodir", 0>>

IsFile(v) == v \in FileVals

\* a file that exists but cannot be read (EACCES)
Unreadable == <<"unreadable", 0>>

\* a slot that existsSync reports as existing
Exists(v) == IsFile(v) \/ v = Unreadable

HOME == "HOME"
CWD == "CWD"
Roots == {HOME, CWD}

\* entries at a home path
NoDirEntry == [kind |-> "nodir", data |-> Absent]
NoEntry == [kind |-> "none", data |-> Absent]
File(c) == [kind |-> "file", data |-> c]
\* a symbolic link whose readlink() is join(DOTFILES_DIR, path)
LinkRepo == [kind |-> "symlink", data |-> <<"repo", 0>>]
\* a symbolic link to a file outside the three roots
LinkExt == [kind |-> "symlink", data |-> <<"ext", 0>>]

InitHomeEntries == {NoDirEntry, NoEntry, LinkRepo, LinkExt} \cup {File(c) : c \in Contents}
InitSlots == {NoDir, Absent} \cup Contents

\* the filesystem as one value
Fs == [home |-> home, repo |-> repo, backup |-> backup, proj |-> proj, ext |-> ext]

(***************************************************************************)
(* Filesystem primitives                                                   *)
(***************************************************************************)
\* content read at join(root, p), following symbolic links; Absent when
\* the read fails with ENOENT, Unreadable when it fails with EACCES
readAt(s, root, p) ==
  IF root = CWD
  THEN (IF Exists(s.proj[p]) THEN s.proj[p] ELSE Absent)
  ELSE CASE s.home[p].kind = "file" -> s.home[p].data
         [] s.home[p] = LinkRepo -> (IF Exists(s.repo[p]) THEN s.repo[p] ELSE Absent)
         [] s.home[p] = LinkExt -> (IF Exists(s.ext) THEN s.ext ELSE Absent)
         [] OTHER -> Absent

\* existsSync(join(root, p)): follows symbolic links
existsSync(s, root, p) == Exists(readAt(s, root, p))

\* existsSync(join(DOTFILES_DIR, p))
repoExists(s, p) == Exists(s.repo[p])

\* mkdirSync(dirname(path), { recursive: true }) for each root
mkdirRepo(s, p) == IF s.repo[p] = NoDir THEN [s EXCEPT !.repo[p] = Absent] ELSE s
mkdirBackup(s, p) == IF s.backup[p] = NoDir THEN [s EXCEPT !.backup[p] = Absent] ELSE s
mkdirAt(s, root, p) ==
  IF root = CWD
  THEN (IF s.proj[p] = NoDir THEN [s EXCEPT !.proj[p] = Absent] ELSE s)
  ELSE (IF s.home[p] = NoDirEntry THEN [s EXCEPT !.home[p] = NoEntry] ELSE s)

\* a write of content c at join(root, p): a symbolic link is written through
writeAt(s, root, p, c) ==
  IF root = CWD
  THEN [s EXCEPT !.proj[p] = c]
  ELSE CASE s.home[p] = LinkRepo -> [s EXCEPT !.repo[p] = c]
         [] s.home[p] = LinkExt -> [s EXCEPT !.ext = c]
         [] OTHER -> [s EXCEPT !.home[p] = File(c)]

\* Bun.write(dest, Bun.file(src)): what ends up in dest, or Absent when the
\* call throws.  It throws when the source cannot be read and when the
\* environment fails the write (ok = FALSE).  When dest and src are the same
\* file (aliased) the runtime either leaves it or truncates it (self).
Throws == Absent
bunWrite(src, aliased, ok, self) ==
  IF ~IsFile(src) \/ ~ok THEN Throws
  ELSE IF aliased /\ self = "trunc" THEN Empty
  ELSE src

SelfCopy == {"same", "trunc"}

(***************************************************************************)
(* Status resolution                                                       *)
(***************************************************************************)
\* a getFileStatus that compares the link target with the home path
getFileStatus_homeTarget(s, p) ==
  IF ~existsSync(s, HOME, p) THEN "unlinked" ELSE "diverged"

\* sync.ts getFileStatus: the home entry alone decides; neither the repo
\* copy's existence nor any content is looked at
getFileStatus(s, p) ==
  IF ~existsSync(s, HOME, p) THEN "unlinked"
  ELSE IF s.home[p].kind = "symlink" /\ s.home[p] = LinkRepo THEN "synced"
  ELSE "diverged"

\* fileHash: null when the file is missing or unreadable, else Bun.hash of
\* the bytes (a 64-bit hash, injective on the contents distinguished here)
fileHash(c) == IF IsFile(c) THEN <<"hash", c>> ELSE <<"null">>

\* Bun.resolveSync(targetPath, basePath) === repoPath
resolvesToRepo(s, p) == s.home[p] = LinkRepo

getFileStatus_r2(s, p, basePath) ==
  IF ~repoExists(s, p) THEN "unlinked"
  ELSE IF ~existsSync(s, basePath, p) THEN "unlinked"
  ELSE IF basePath = HOME /\ resolvesToRepo(s, p) THEN "synced"
  ELSE IF fileHash(s.repo[p]) = fileHash(readAt(s, basePath, p)) THEN "synced"
  ELSE "conflict"

\* getAllTrackedFiles(basePath): every manifest path present in the repo,
\* with its filesystem-only status
getAllTrackedFiles_r2(s, basePath) ==
  [f \in {q \in DOMAIN s.repo : repoExists(s, q)} |-> getFileStatus_r2(s, f, basePath)]

\* the same loop with the remote test ahead of the conflict test
applyVcsSignals_remoteFirst(files, remoteChanges, localChanges) ==
  [f \in DOMAIN files |->
     IF f \in remoteChanges THEN "remote"
     ELSE IF f \in remoteChanges /\ f \in localChanges THEN "conflict"
     ELSE IF f \in localChanges THEN "local"
     ELSE files[f]]

\* the loop of runGlobalMode / runLocalMode over files
applyVcsSignals(files, remoteChanges, localChanges) ==
  [f \in DOMAIN files |->
     IF f \in remoteChanges /\ f \in localChanges THEN "conflict"
     ELSE IF f \in remoteChanges THEN "remote"
     ELSE IF f \in localChanges THEN "local"
     ELSE files[f]]

(***************************************************************************)
(* Mutations.  Each returns the filesystem it leaves, whether it threw,    *)
(* and whether it wrote a backup.                                          *)
(***************************************************************************)
Outcome(s, t, b) == [fs |-> s, threw |-> t, backedUp |-> b]

\* a linkFile that backs up whatever exists at the home path, the correct
\* symlink included
linkFile_backupAlways(s, p, okBackup) ==
  LET wrote == existsSync(s, HOME, p) /\ okBackup
      s1 == IF wrote
            THEN [mkdirBackup(s, p) EXCEPT !.backup[p] = readAt(s, HOME, p)]
            ELSE s
  IN Outcome([s1 EXCEPT !.home[p] = LinkRepo], FALSE, wrote)

\* a linkFile whose symlinkSync arguments are swapped: the link would be
\* created at the repo path, which fails with EEXIST when the repo copy exists
linkFile_swappedSymlink(s, p, okBackup) ==
  LET needBackup == existsSync(s, HOME, p)
                    /\ (s.home[p].kind # "symlink" \/ s.home[p] # LinkRepo)
      wrote == needBackup /\ okBackup
      s1 == IF wrote
            THEN [mkdirBackup(s, p) EXCEPT !.backup[p] = readAt(s, HOME, p)]
            ELSE s
      s2 == [mkdirAt(s1, HOME, p) EXCEPT !.home[p] =
               IF s.home[p].kind \in {"file", "symlink"} THEN NoEntry ELSE @]
  IN IF repoExists(s, p) THEN Outcome(s2, TRUE, wrote)
     ELSE Outcome([s2 EXCEPT !.repo[p] = Absent], FALSE, wrote)

\* sync.ts linkFile.  okBackup = FALSE: mkdirSync or Bun.write of the backup
\* throws, which the empty catch swallows.  The home entries modelled are a
\* missing entry, a regular file and a symlink, on which unlinkSync (or its
\* swallowed ENOENT) and symlinkSync succeed.
linkFile(s, p, okBackup) ==
  LET needBackup == existsSync(s, HOME, p)
                    /\ (s.home[p].kind # "symlink" \/ s.home[p] # LinkRepo)
      wrote == needBackup /\ okBackup
      s1 == IF wrote
            THEN [mkdirBackup(s, p) EXCEPT !.backup[p] = readAt(s, HOME, p)]
            ELSE s
      \* mkdirSync(dirname(homePath)); try unlinkSync; symlinkSync(repoPath, homePath)
      s2 == [s1 EXCEPT !.home[p] = LinkRepo]
  IN Outcome(s2, FALSE, wrote)

\* sync.ts copyToRepo: always from HOME
copyToRepo(s, p, ok, self) ==
  LET s1 == mkdirRepo(s, p)
      w == bunWrite(readAt(s, HOME, p), s.home[p] = LinkRepo, ok, self)
  IN IF w = Throws THEN Outcome(s1, TRUE, FALSE)
     ELSE Outcome([s1 EXCEPT !.repo[p] = w], FALSE, FALSE)

\* a copyToRepo that ignores its source root and reads from HOME
copyToRepo_r2_ignoresSource(s, p, sourcePath, ok, self) ==
  LET s1 == mkdirRepo(s, p)
      w == bunWrite(readAt(s, HOME, p), s.home[p] = LinkRepo, ok, self)
  IN IF w = Throws THEN Outcome(s1, TRUE, FALSE)
     ELSE Outcome([s1 EXCEPT !.repo[p] = w], FALSE, FALSE)

\* README.md copyToRepo(relativePath, sourcePath = HOME)
copyToRepo_r2(s, p, sourcePath, ok, self) ==
  LET s1 == mkdirRepo(s, p)
      w == bunWrite(readAt(s, sourcePath, p),
                    sourcePath = HOME /\ s.home[p] = LinkRepo, ok, self)
  IN IF w = Throws THEN Outcome(s1, TRUE, FALSE)
     ELSE Outcome([s1 EXCEPT !.repo[p] = w], FALSE, FALSE)

\* a copyFromRepo that overwrites the target first and backs it up afterwards
copyFromRepo_backupAfter(s, p, targetPath, okBackup, ok, self) ==
  LET needBackup == existsSync(s, targetPath, p) /\ targetPath = HOME
      w == bunWrite(s.repo[p], targetPath = HOME /\ s.home[p] = LinkRepo, ok, self)
      s1 == mkdirAt(s, targetPath, p)
      s2 == IF w = Throws THEN s1 ELSE writeAt(s1, targetPath, p, w)
      s3 == IF needBackup /\ okBackup
            THEN [mkdirBackup(s2, p) EXCEPT !.backup[p] = readAt(s2, targetPath, p)]
            ELSE s2
  IN IF w = Throws THEN Outcome(s1, TRUE, FALSE)
     ELSE IF needBackup /\ ~okBackup THEN Outcome(s2, TRUE, FALSE)
     ELSE Outcome(s3, FALSE, needBackup)

\* README.md copyFromRepo(relativePath, targetPath = HOME)
copyFromRepo(s, p, targetPath, okBackup, ok, self) ==
  LET needBackup == existsSync(s, targetPath, p) /\ targetPath = HOME
      s1 == IF needBackup
            THEN [mkdirBackup(s, p) EXCEPT !.backup[p] = readAt(s, targetPath, p)]
            ELSE s
      s2 == mkdirAt(s1, targetPath, p)
      w == bunWrite(s.repo[p], targetPath = HOME /\ s.home[p] = LinkRepo, ok, self)
  IN IF needBackup /\ ~okBackup THEN Outcome(s, TRUE, FALSE)
     ELSE IF w = Throws THEN Outcome(s2, TRUE, needBackup)
     ELSE Outcome(writeAt(s2, targetPath, p, w), FALSE, needBackup)

\* README.md linkFile: backs up whatever existsSync sees at the home path,
\* the correct symlink included, and the backup is not inside a try: a
\* failing backup (okBackup = FALSE) throws before anything is replaced
linkFile_r2(s, p, okBackup) ==
  LET needBackup == existsSync(s, HOME, p)
      s1 == IF needBackup
            THEN [mkdirBackup(s, p) EXCEPT !.backup[p] = readAt(s, HOME, p)]
            ELSE s
  IN IF needBackup /\ ~okBackup THEN Outcome(s, TRUE, FALSE)
     ELSE Outcome([s1 EXCEPT !.home[p] = LinkRepo], FALSE, needBackup)

\* sync.ts filesMatch: a read that throws makes it false
filesMatch(s, p) ==
  /\ IsFile(s.repo[p])
  /\ IsFile(readAt(s, HOME, p))
  /\ s.repo[p] = readAt(s, HOME, p)

\* sync.ts isInRepo
isInRepo(s, p) == repoExists(s, p)

\* sync.ts getAllTrackedFiles(): every file found under DOTFILES_DIR
getAllTrackedFiles(s) ==
  [f \in {q \in DOMAIN s.repo : repoExists(s, q)} |-> getFileStatus(s, f)]

\* sync.ts removeFromRepo: unlinkSync(repoPath), a failure is swallowed
removeFromRepo(s, p) ==
  Outcome(IF repoExists(s, p) THEN [s EXCEPT !.repo[p] = Absent] ELSE s, FALSE, FALSE)

\* what the user saves into the local file while the diff tool is open:
\* nothing, or a content
DiffEdits == {Absent, Content(2)}

\* sync.ts openDiffTool: the left (local) side is editable
openDiffTool(s, p, edit) ==
  IF IsFile(edit) /\ existsSync(s, HOME, p) THEN writeAt(s, HOME, p, edit) ELSE s

\* a syncFile that unlinks the local file before it copies
syncFile_unlinkFirst(s, p, ok, self) ==
  LET s1 == [mkdirRepo(s, p) EXCEPT !.home[p] = NoEntry]
      w == bunWrite(readAt(s1, HOME, p), FALSE, ok, self)
  IN IF w = Throws THEN Outcome(s1, TRUE, FALSE)
     ELSE Outcome([s1 EXCEPT !.repo[p] = w, !.home[p] = LinkRepo], FALSE, FALSE)

\* sync.ts syncFile: copy local to the repo, unlink local, symlink it
syncFile(s, p, ok, self) ==
  LET s1 == mkdirRepo(s, p)
      w == bunWrite(readAt(s, HOME, p), s.home[p] = LinkRepo, ok, self)
  IN IF w = Throws THEN Outcome(s1, TRUE, FALSE)
     ELSE IF s1.home[p].kind \notin {"file", "symlink"}
          THEN Outcome([s1 EXCEPT !.repo[p] = w], TRUE, FALSE)
     ELSE Outcome([s1 EXCEPT !.repo[p] = w, !.home[p] = LinkRepo], FALSE, FALSE)

(***************************************************************************)
(* The version-control collaborator.  cloned: the repository directory and *)
(* its .git exist.  dirty: paths whose working-tree file differs from      *)
(* HEAD.  behind: paths that differ between HEAD and origin/main.          *)
(* committed / pushed: paths recorded in commits made / published by this  *)
(* run.  firstUnstaged: the first line of git status --porcelain starts    *)
(* with a space (an unstaged change, " M path").  ahead: HEAD holds a       *)
(* commit that an earlier run made and did not push.                       *)
(***************************************************************************)
NoGit == [cloned |-> TRUE, dirty |-> {}, behind |-> {}, committed |-> {}, pushed |-> {},
          firstUnstaged |-> FALSE, ahead |-> FALSE]

\* what origin/main holds for every path
RemoteTip == Content(1)

\* the result of a git operation: the filesystem and git state it leaves,
\* whether it reported success, and the git subcommands it ran
GitOutcome(s, g, ok, calls) == [fs |-> s, git |-> g, ok |-> ok, calls |-> calls]

\* isRepoCloned
isRepoCloned(g) == g.cloned

\* a cloneRepo whose result the caller always takes for a success
cloneRepo_truthyResult(s, g, ok) ==
  IF ok
  THEN GitOutcome([s EXCEPT !.repo = [q \in DOMAIN s.repo |-> RemoteTip]],
                  [g EXCEPT !.cloned = TRUE], TRUE, <<"clone">>)
  ELSE GitOutcome(s, g, TRUE, <<"clone">>)

\* cloneRepo: on success the repository holds origin/main
cloneRepo(s, g, ok) ==
  IF ok
  THEN GitOutcome([s EXCEPT !.repo = [q \in DOMAIN s.repo |-> RemoteTip]],
                  [g EXCEPT !.cloned = TRUE], TRUE, <<"clone">>)
  ELSE GitOutcome(s, g, FALSE, <<"clone">>)

\* pullRepo (git pull --rebase): on success the working tree takes the
\* remote version of every path that was behind; a path with uncommitted
\* changes keeps them (a pull over a dirty tree succeeds only by stashing
\* and re-applying them)
pullRepo(s, g, ok) ==
  IF ok
  THEN GitOutcome([s EXCEPT !.repo = [q \in DOMAIN s.repo |->
                                        IF q \in g.behind \ g.dirty THEN RemoteTip
                                        ELSE s.repo[q]]],
                  [g EXCEPT !.behind = {}], TRUE, <<"pull">>)
  ELSE GitOutcome(s, g, FALSE, <<"pull">>)

\* git add -A followed by git commit: every dirty path goes into the commit
gitCommitAll(g) == [g EXCEPT !.committed = @ \cup g.dirty, !.dirty = {}]

\* git push: every commit not yet published is published
gitPush(g) == [g EXCEPT !.pushed = @ \cup g.committed, !.ahead = FALSE]

\* where a git subcommand of a push fails, if anywhere
GitFails == {"none", "add", "commit", "push"}

\* the older pushRepo (unnamed/part_002): add, commit and push run whatever
\* the previous one returned; the result is the exit code of the push
pushRepo_r0(s, g, fail) ==
  LET g1 == IF fail \in {"add", "commit"} \/ g.dirty = {} THEN g ELSE gitCommitAll(g)
      g2 == IF fail = "push" THEN g1 ELSE gitPush(g1)
  IN GitOutcome(s, g2, fail # "push", <<"add", "commit", "push">>)

\* github.ts pushRepo: stops at the first failing subcommand; a commit
\* that fails with "nothing to commit" is a success without a push
pushRepo(s, g, fail) ==
  IF fail = "add" THEN GitOutcome(s, g, FALSE, <<"add">>)
  ELSE IF g.dirty = {} THEN GitOutcome(s, g, TRUE, <<"add", "commit">>)
  ELSE IF fail = "commit" THEN GitOutcome(s, g, FALSE, <<"add", "commit">>)
  ELSE IF fail = "push" THEN GitOutcome(s, gitCommitAll(g), FALSE, <<"add", "commit", "push">>)
  ELSE GitOutcome(s, gitPush(gitCommitAll(g)), TRUE, <<"add", "commit", "push">>)

\* github.ts commitRepo: add, then commit
commitRepo(s, g, fail) ==
  IF fail = "add" THEN GitOutcome(s, g, FALSE, <<"add">>)
  ELSE IF fail = "commit" \/ g.dirty = {} THEN GitOutcome(s, g, FALSE, <<"add", "commit">>)
  ELSE GitOutcome(s, gitCommitAll(g), TRUE, <<"add", "commit">>)

\* github.ts push
push(s, g, fail) ==
  IF fail = "push" THEN GitOutcome(s, g, FALSE, <<"push">>)
  ELSE GitOutcome(s, gitPush(g), TRUE, <<"push">>)

\* the order in which paths are listed: by git, and by the selection prompt
PathOrder == <<".zshrc", ".gitconfig">>

PathIndex(q) == CHOOSE i \in 1..Len(PathOrder) : PathOrder[i] = q

\* the path on the first line of git status --porcelain
FirstDirty(g) ==
  CHOOSE q \in g.dirty : \A r \in g.dirty : PathIndex(q) <= PathIndex(r)

\* q.slice(1): the path without its first character
Sliced(q) == IF q = ".zshrc" THEN "zshrc" ELSE "gitconfig"

\* output.trim().split("\n").map(line => line.slice(3)): trim() strips the
\* leading space of the first line, so slice(3) also cuts the first
\* character of its path
porcelainPaths(g) ==
  IF g.dirty # {} /\ g.firstUnstaged
  THEN (g.dirty \ {FirstDirty(g)}) \cup {Sliced(FirstDirty(g))}
  ELSE g.dirty

\* getRemoteChanges: git fetch, then git diff --name-only HEAD origin/main
getRemoteChanges(g) == g.behind
getLocalChanges(g) == porcelainPaths(g)
getUncommittedChanges(g) == porcelainPaths(g)

(***************************************************************************)
(* State machine: the environment calls the operations in any order.       *)
(* last records the most recent call: its arguments, its outcome and the   *)
(* filesystem it started from.                                             *)
(***************************************************************************)
NoFiles == [f \in {} |-> "unlinked"]

\* no command of the command line is running
NoChoice == [f \in {} |-> "skip"]

\* a filesystem of no paths
NoFs ==
  [home |-> [q \in {} |-> NoEntry], repo |-> [q \in {} |-> Absent],
   backup |-> [q \in {} |-> Absent], proj |-> [q \in {} |-> Absent], ext |-> Absent]

NoPass ==
  [cmd |-> "-", arg |-> "-", pc |-> "idle", files |-> NoFiles, selected |-> {},
   choice |-> NoChoice, toPull |-> <<>>, toPush |-> <<>>, toLink |-> <<>>,
   i |-> 1, exit |-> "-", start |-> NoFs, loc |-> "home", stray |-> Absent]

\* the call about to be made repeats the previous one
Repeats(op, p, root) == last.op = op /\ last.path = p /\ last.root = root

Call(op, p, root) ==
  [op |-> op, path |-> p, root |-> root, threw |-> FALSE, backedUp |-> FALSE,
   status |-> "-", files |-> NoFiles, remote |-> {}, local |-> {},
   repeat |-> Repeats(op, p, root),
   prevThrew |-> (Repeats(op, p, root) /\ last.threw),
   prevBackedUp |-> (Repeats(op, p, root) /\ last.backedUp),
   pre |-> Fs]

Init ==
  /\ home \in [Paths -> InitHomeEntries]
  /\ repo \in [Paths -> InitSlots]
  /\ backup \in [Paths -> InitSlots]
  /\ proj \in [Paths -> InitSlots]
  /\ ext \in {Absent} \cup Contents
  /\ last = [op |-> "init", path |-> "-", root |-> "-", threw |-> FALSE,
             backedUp |-> FALSE, status |-> "-", files |-> NoFiles,
             remote |-> {}, local |-> {}, repeat |-> FALSE,
             prevThrew |-> FALSE, prevBackedUp |-> FALSE, pre |-> Fs]
  /\ git = NoGit
  /\ pass = NoPass
  /\ log = <<>>

SetFs(s) ==
  /\ home' = s.home
  /\ repo' = s.repo
  /\ backup' = s.backup
  /\ proj' = s.proj
  /\ ext' = s.ext

Apply(r, call) ==
  /\ SetFs(r.fs)
  /\ last' = [call EXCEPT !.threw = r.threw, !.backedUp = r.backedUp]

LinkFile(p) ==
  \E okBackup \in BOOLEAN :
    Apply(linkFile(Fs, p, okBackup), Call("linkFile", p, HOME))

CopyToRepo(p) ==
  \E ok \in BOOLEAN, self \in SelfCopy :
    Apply(copyToRepo(Fs, p, ok, self), Call("copyToRepo", p, HOME))

CopyToRepo_r2(p) ==
  \E sourcePath \in Roots, ok \in BOOLEAN, self \in SelfCopy :
    Apply(copyToRepo_r2(Fs, p, sourcePath, ok, self), Call("copyToRepo_r2", p, sourcePath))

CopyFromRepo(p) ==
  \E targetPath \in Roots, okBackup \in BOOLEAN, ok \in BOOLEAN, self \in SelfCopy :
    Apply(copyFromRepo(Fs, p, targetPath, okBackup, ok, self),
          Call("copyFromRepo", p, targetPath))

GetFileStatus(p) ==
  /\ UNCHANGED <<home, repo, backup, proj, ext>>
  /\ last' = [Call("getFileStatus", p, HOME) EXCEPT !.status = getFileStatus(Fs, p)]

GetFileStatus_r2(p) ==
  \E basePath \in Roots :
    /\ UNCHANGED <<home, repo, backup, proj, ext>>
    /\ last' = [Call("getFileStatus_r2", p, basePath)
                  EXCEPT !.status = getFileStatus_r2(Fs, p, basePath)]

\* the status phase of runGlobalMode (basePath = HOME) and runLocalMode (cwd)
ResolveStatuses ==
  \E basePath \in Roots, remoteChanges \in SUBSET VcsPaths, localChanges \in SUBSET VcsPaths :
    /\ UNCHANGED <<home, repo, backup, proj, ext>>
    /\ last' = [Call("resolveStatuses", "-", basePath)
                  EXCEPT !.files = applyVcsSignals(getAllTrackedFiles_r2(Fs, basePath),
                                                   remoteChanges, localChanges),
                         !.remote = remoteChanges,
                         !.local = localChanges]

Next ==
  /\ \/ \E p \in Paths : LinkFile(p)
     \/ \E p \in Paths : CopyToRepo(p)
     \/ \E p \in Paths : CopyToRepo_r2(p)
     \/ \E p \in Paths : CopyFromRepo(p)
     \/ \E p \in Paths : GetFileStatus(p)
     \/ \E p \in Paths : GetFileStatus_r2(p)
     \/ ResolveStatuses
  /\ UNCHANGED <<git, pass, log>>

Spec == Init /\ [][Next]_vars

(***************************************************************************)
(* Content comparison on files that may be missing or unreadable: the      *)
(* environment calls the comparing operations on one path.                 *)
(***************************************************************************)
CompareHomeEntries == InitHomeEntries \cup {File(Unreadable)}
CompareSlots == InitSlots \cup {Unreadable}

CompareInit ==
  /\ home \in [Paths -> CompareHomeEntries]
  /\ repo \in [Paths -> CompareSlots]
  /\ backup = [q \in Paths |-> NoDir]
  /\ proj \in [Paths -> CompareSlots]
  /\ ext \in {Absent, Unreadable, Content(1)}
  /\ last = [op |-> "init", path |-> "-", root |-> "-", threw |-> FALSE,
             backedUp |-> FALSE, status |-> "-", files |-> NoFiles,
             remote |-> {}, local |-> {}, repeat |-> FALSE,
             prevThrew |-> FALSE, prevBackedUp |-> FALSE, pre |-> Fs]
  /\ git = NoGit
  /\ pass = NoPass
  /\ log = <<>>

\* a call of filesMatch; its boolean is recorded as "match" / "differ"
FilesMatch(p) ==
  /\ UNCHANGED <<home, repo, backup, proj, ext>>
  /\ last' = [Call("filesMatch", p, HOME)
                EXCEPT !.status = IF filesMatch(Fs, p) THEN "match" ELSE "differ"]

CompareNext ==
  /\ \/ \E p \in Paths : FilesMatch(p)
     \/ \E p \in Paths : GetFileStatus_r2(p)
  /\ UNCHANGED <<git, pass, log>>

CompareSpec == CompareInit /\ [][CompareNext]_vars

\* syncFile applied to one path, and the status resolved after it
SyncFile(p) ==
  \E ok \in BOOLEAN, self \in SelfCopy :
    Apply(syncFile(Fs, p, ok, self), Call("syncFile", p, HOME))

SyncNext ==
  /\ (\/ \E p \in Paths : SyncFile(p)
      \/ \E p \in Paths : GetFileStatus(p))
  /\ UNCHANGED <<git, pass, log>>

SyncSpec == Init /\ [][SyncNext]_vars

(***************************************************************************)
(* One run of the command line.  pass holds the command, its position      *)
(* (pc), the statuses it resolved, the selection, the buckets, the index   *)
(* into the bucket being executed, the exit code and the filesystem the    *)
(* run started from.  log is the sequence of calls made on the mutation    *)
(* engine and on git, and of messages reported to the user.                *)
(***************************************************************************)
PassPaths == {".zshrc", ".gitconfig"}

Cmds == {"global", "local", "sync", "add", "rm"}

\* absolute paths are sequences of characters, with the file name as the
\* last element; HOME is "/h"
HomeChars == <<"/", "h">>

\* where the argument of dot <file> lies: inside HOME, in the sibling
\* directory "/h2", or in "/e"
Locations == {"home", "sibling", "outside"}

DirOf(loc) ==
  CASE loc = "home" -> HomeChars
    [] loc = "sibling" -> HomeChars \o <<"2">>
    [] OTHER -> <<"/", "e">>

\* resolve(process.cwd(), filePath)
absolutePath(loc, p) == DirOf(loc) \o <<"/", p>>

\* String.prototype.startsWith
startsWith(str, prefix) ==
  Len(str) >= Len(prefix) /\ SubSeq(str, 1, Len(prefix)) = prefix

\* relative(HOME, absolutePath) stays below HOME, without a leading ".."
relativeIsBelowHome(loc) == loc = "home"

ConflictChoices == {"push", "pull", "skip", "cancel"}

\* the paths of S in listing order
SeqOf(S) == SelectSeq(PathOrder, LAMBDA q : q \in S)

Range(sq) == {sq[k] : k \in 1..Len(sq)}

Entry(ev, path, ok, calls) == [ev |-> ev, path |-> path, ok |-> ok, calls |-> calls]

\* a message shown to the user
Report(msg) == Entry("report", msg, TRUE, <<>>)

\* the entry of a git operation with outcome r
GitEntry(ev, r) == Entry(ev, "-", r.ok, r.calls)

SetGit(r) ==
  /\ SetFs(r.fs)
  /\ git' = r.git

\* return from the command: the process ends with exit code 0
Return(P, msgs) ==
  /\ pass' = [P EXCEPT !.pc = "done", !.exit = "0"]
  /\ log' = log \o msgs

\* process.exit(1), also reached through main().catch for an exception
Exit1(P, msgs) ==
  /\ pass' = [P EXCEPT !.pc = "done", !.exit = "1"]
  /\ log' = log \o msgs

PassInit ==
  /\ \E cloned \in BOOLEAN :
       /\ repo \in (IF cloned THEN [PassPaths -> {Absent, Content(2)}]
                    ELSE [PassPaths -> {NoDir}])
       /\ \E dirty \in SUBSET {q \in PassPaths : IsFile(repo[q])},
             behind \in SUBSET {q \in PassPaths : IsFile(repo[q])},
             unstaged \in BOOLEAN, ahead \in BOOLEAN :
            /\ dirty = {} => ~unstaged
            /\ ~cloned => ~ahead
            /\ git = [cloned |-> cloned, dirty |-> dirty, behind |-> behind,
                      committed |-> {}, pushed |-> {}, firstUnstaged |-> unstaged,
                      ahead |-> ahead]
  /\ backup = [q \in PassPaths |-> NoDir]
  /\ \E cmd \in Cmds, loc \in Locations :
       /\ cmd # "add" => loc = "home"
       /\ ext \in (IF loc = "home" THEN {Absent} ELSE {Absent, Content(1)})
       /\ home \in (IF cmd = "local" THEN [PassPaths -> {NoEntry}]
                    ELSE [PassPaths -> {NoEntry, File(Content(1)), LinkRepo}])
       /\ proj \in (IF cmd = "local" THEN [PassPaths -> {Absent, Content(1)}]
                    ELSE [PassPaths -> {Absent}])
       /\ \E arg \in PassPaths :
            pass = [NoPass EXCEPT !.cmd = cmd, !.start = Fs, !.loc = loc,
                                  !.arg = IF cmd \in {"add", "rm"} THEN arg ELSE "-",
                                  !.pc = IF cmd = "add" THEN "addCheck" ELSE "ensure"]
  /\ last = [op |-> "init", path |-> "-", root |-> "-", threw |-> FALSE,
             backedUp |-> FALSE, status |-> "-", files |-> NoFiles,
             remote |-> {}, local |-> {}, repeat |-> FALSE,
             prevThrew |-> FALSE, prevBackedUp |-> FALSE, pre |-> Fs]
  /\ log = <<>>

\* continue at a stage of the execute phase; the stage "outro" prints
\* "Done!" and returns
Goto(P, stage, entries) ==
  IF stage = "outro" THEN Return(P, entries \o <<Report("Done")>>)
  ELSE /\ pass' = [P EXCEPT !.pc = stage, !.i = 1]
       /\ log' = log \o entries

\* the stage that follows each bucket of runGlobalMode / runLocalMode; an
\* empty bucket is skipped by its if (bucket.length)
StageLink(P) == IF P.toLink # <<>> THEN "link" ELSE "outro"
\* a push stage whose if (toPush.length) covers the copy loop only
StagePush_pushAnyway(P) == IF P.toPush # <<>> THEN "pushCopy" ELSE "pushRepo"
StagePush(P) == IF P.toPush # <<>> THEN "pushCopy" ELSE StageLink(P)
StagePull(P) == IF P.toPull # <<>> THEN "pull" ELSE StagePush(P)

\* a loop over a bucket that ends after its first path
Step_firstPathOnly(P, bucket, after, entries, done) ==
  Goto(P, after, entries \o done)

\* one call of a bucket's loop has been made: the loop continues with the
\* next path or the bucket is finished
Step(P, bucket, after, entries, done) ==
  IF P.i < Len(bucket)
  THEN /\ pass' = [P EXCEPT !.i = @ + 1]
       /\ log' = log \o entries
  ELSE Goto(P, after, entries \o done)

\* the entry of a mutation call with outcome r
MutEntry(ev, path, r) == Entry(ev, path, ~r.threw, <<>>)

\* ensureRepo, and the clone check of the older main: clone when the
\* repository is missing, process.exit(1) when the clone fails
EnsureRepo ==
  /\ pass.pc = "ensure"
  /\ UNCHANGED last
  /\ LET after == CASE pass.cmd = "sync" -> "syncPull"
                    [] pass.cmd = "add" -> "add"
                    [] pass.cmd = "rm" -> "rm"
                    [] OTHER -> "resolve"
     IN IF isRepoCloned(git)
        THEN /\ UNCHANGED <<home, repo, backup, proj, ext, git>>
             /\ Goto(pass, after, <<>>)
        ELSE \E ok \in BOOLEAN :
               LET r == cloneRepo(Fs, git, ok)
               IN /\ SetGit(r)
                  /\ IF r.ok
                     THEN Goto(pass, after, <<GitEntry("cloneRepo", r)>>)
                     ELSE Exit1(pass, <<GitEntry("cloneRepo", r), Report("error")>>)

\* the status phase of a pass over basePath: filesystem statuses overridden
\* by what git reports
resolveStatuses(s, g, basePath) ==
  applyVcsSignals(getAllTrackedFiles_r2(s, basePath),
                  getRemoteChanges(g), getLocalChanges(g))

\* runGlobalMode up to the selection prompt: all synced returns at once
RunGlobalResolve ==
  /\ pass.pc = "resolve" /\ pass.cmd = "global"
  /\ UNCHANGED <<home, repo, backup, proj, ext, last, git>>
  /\ LET files == resolveStatuses(Fs, git, HOME)
         P == [pass EXCEPT !.files = files]
     IN IF \A f \in DOMAIN files : files[f] = "synced"
        THEN Return(P, <<Entry("status", "-", TRUE, <<>>), Report("Everything up to date")>>)
        ELSE Goto(P, "select", <<Entry("status", "-", TRUE, <<>>)>>)

\* runLocalMode up to the selection prompt
RunLocalResolve ==
  /\ pass.pc = "resolve" /\ pass.cmd = "local"
  /\ UNCHANGED <<home, repo, backup, proj, ext, last, git>>
  /\ Goto([pass EXCEPT !.files = resolveStatuses(Fs, git, CWD)], "select",
          <<Entry("status", "-", TRUE, <<>>)>>)

\* the multiselect prompt of runGlobalMode / runLocalMode: every tracked
\* file is offered; a cancelled or empty selection returns
Select ==
  /\ pass.pc = "select" /\ pass.cmd \in {"global", "local"}
  /\ UNCHANGED <<home, repo, backup, proj, ext, last, git>>
  /\ \E selected \in SUBSET DOMAIN pass.files :
       IF selected = {} THEN Return(pass, <<Report("Nothing to do")>>)
       ELSE Goto([pass EXCEPT !.selected = selected], "partition", <<>>)

\* the switch of runGlobalMode over the selected files
partitionGlobal(files, selected, choice) ==
  [toPush |-> SeqOf({f \in selected : \/ files[f] = "local"
                                      \/ files[f] = "conflict" /\ choice[f] = "push"}),
   toPull |-> SeqOf({f \in selected : \/ files[f] = "remote"
                                      \/ files[f] = "conflict" /\ choice[f] = "pull"}),
   toLink |-> SeqOf({f \in selected : files[f] = "unlinked"})]

\* the switch of runLocalMode: there is no pull bucket, remote goes with
\* synced and unlinked into the copy bucket (kept in toLink)
partitionLocal(files, selected, choice) ==
  [toPush |-> SeqOf({f \in selected : \/ files[f] = "local"
                                      \/ files[f] = "conflict" /\ choice[f] = "push"}),
   toPull |-> <<>>,
   toLink |-> SeqOf({f \in selected : \/ files[f] \in {"remote", "synced", "unlinked"}
                                      \/ files[f] = "conflict" /\ choice[f] = "pull"})]

\* partition, the per-conflict prompts included, then the summary: with
\* nothing in any bucket the pass returns
Partition ==
  /\ pass.pc = "partition" /\ pass.cmd \in {"global", "local"}
  /\ UNCHANGED <<home, repo, backup, proj, ext, last, git>>
  /\ \E choice \in [{f \in pass.selected : pass.files[f] = "conflict"} -> ConflictChoices] :
       LET b == IF pass.cmd = "global"
                THEN partitionGlobal(pass.files, pass.selected, choice)
                ELSE partitionLocal(pass.files, pass.selected, choice)
           P == [pass EXCEPT !.choice = choice, !.toPush = b.toPush,
                             !.toPull = b.toPull, !.toLink = b.toLink]
       IN IF b.toPush = <<>> /\ b.toPull = <<>> /\ b.toLink = <<>>
          THEN Return(P, <<Report("Nothing to do")>>)
          ELSE Goto(P, "confirm", <<>>)

\* a "Proceed?" prompt whose answer is not looked at
Confirm_declineProceeds ==
  /\ pass.pc = "confirm"
  /\ UNCHANGED <<home, repo, backup, proj, ext, last, git>>
  /\ \E confirm \in BOOLEAN :
       IF confirm THEN Goto(pass, StagePull(pass), <<Entry("confirm", "-", TRUE, <<>>)>>)
       ELSE Goto(pass, StagePull(pass), <<>>)

\* the "Proceed?" prompt
Confirm ==
  /\ pass.pc = "confirm"
  /\ UNCHANGED <<home, repo, backup, proj, ext, last, git>>
  /\ \E confirm \in BOOLEAN :
       IF confirm THEN Goto(pass, StagePull(pass), <<Entry("confirm", "-", TRUE, <<>>)>>)
       ELSE Return(pass, <<Report("Cancelled")>>)

\* runGlobalMode, pull bucket: await pullRepo(), its result is dropped
ExecPull ==
  /\ pass.pc = "pull"
  /\ UNCHANGED last
  /\ \E ok \in BOOLEAN :
       LET r == pullRepo(Fs, git, ok)
       IN /\ SetGit(r)
          /\ Goto(pass, "pullLink", <<GitEntry("pullRepo", r)>>)

\* runGlobalMode, pull bucket: linkFile for each pulled path
ExecPullLink ==
  /\ pass.pc = "pullLink"
  /\ UNCHANGED <<last, git>>
  /\ \E okBackup \in BOOLEAN :
       LET path == pass.toPull[pass.i]
           r == linkFile_r2(Fs, path, okBackup)
       IN /\ SetFs(r.fs)
          /\ IF r.threw
             THEN Exit1(pass, <<MutEntry("linkFile", path, r), Report("error")>>)
             ELSE Step(pass, pass.toPull, StagePush(pass),
                       <<MutEntry("linkFile", path, r)>>, <<Report("Pulled")>>)

\* push bucket: copyToRepo(path, HOME) / copyToRepo(path, cwd) for each path
ExecPushCopy ==
  /\ pass.pc = "pushCopy" /\ pass.cmd \in {"global", "local"}
  /\ UNCHANGED <<last>>
  /\ \E ok \in BOOLEAN, self \in SelfCopy :
       LET path == pass.toPush[pass.i]
           r == copyToRepo_r2(Fs, path, IF pass.cmd = "global" THEN HOME ELSE CWD, ok, self)
       IN /\ SetFs(r.fs)
          /\ git' = IF r.fs.repo[path] # repo[path]
                    THEN [git EXCEPT !.dirty = @ \cup {path}] ELSE git
          /\ IF r.threw
             THEN Exit1(pass, <<MutEntry("copyToRepo", path, r), Report("error")>>)
             ELSE Step(pass, pass.toPush, "pushRepo",
                       <<MutEntry("copyToRepo", path, r)>>, <<>>)

\* push bucket: await pushRepo(...), its result is dropped, then the
\* spinner stops with "Pushed n files"
ExecPushRepo ==
  /\ pass.pc = "pushRepo" /\ pass.cmd \in {"global", "local"}
  /\ UNCHANGED last
  /\ \E fail \in GitFails :
       LET r == pushRepo_r0(Fs, git, fail)
       IN /\ SetGit(r)
          /\ Goto(pass, StageLink(pass), <<GitEntry("pushRepo", r), Report("Pushed")>>)

\* runGlobalMode, link bucket
ExecLink ==
  /\ pass.pc = "link" /\ pass.cmd = "global"
  /\ UNCHANGED <<last, git>>
  /\ \E okBackup \in BOOLEAN :
       LET path == pass.toLink[pass.i]
           r == linkFile_r2(Fs, path, okBackup)
       IN /\ SetFs(r.fs)
          /\ IF r.threw
             THEN Exit1(pass, <<MutEntry("linkFile", path, r), Report("error")>>)
             ELSE Step(pass, pass.toLink, "outro",
                       <<MutEntry("linkFile", path, r)>>, <<Report("Linked")>>)

\* runLocalMode, copy bucket: copyFromRepo(path, cwd)
ExecCopy ==
  /\ pass.pc = "link" /\ pass.cmd = "local"
  /\ UNCHANGED <<last, git>>
  /\ \E okBackup \in BOOLEAN, ok \in BOOLEAN, self \in SelfCopy :
       LET path == pass.toLink[pass.i]
           r == copyFromRepo(Fs, path, CWD, okBackup, ok, self)
       IN /\ SetFs(r.fs)
          /\ IF r.threw
             THEN Exit1(pass, <<MutEntry("copyFromRepo", path, r), Report("error")>>)
             ELSE Step(pass, pass.toLink, "outro",
                       <<MutEntry("copyFromRepo", path, r)>>, <<Report("Copied")>>)

\* runSync: pull latest; a failed pull is process.exit(1)
SyncPull ==
  /\ pass.pc = "syncPull"
  /\ UNCHANGED last
  /\ \E ok \in BOOLEAN :
       LET r == pullRepo(Fs, git, ok)
       IN /\ SetGit(r)
          /\ IF r.ok THEN Goto(pass, "uncommitted", <<GitEntry("pullRepo", r)>>)
             ELSE Exit1(pass, <<GitEntry("pullRepo", r), Report("Sync failed")>>)

\* runSync: uncommitted repo changes are listed and, when the user answers
\* "Sync?" with yes, committed and pushed
SyncUncommitted ==
  /\ pass.pc = "uncommitted"
  /\ UNCHANGED last
  /\ IF getUncommittedChanges(git) = {}
     THEN /\ UNCHANGED <<home, repo, backup, proj, ext, git>>
          /\ Goto(pass, "resolve", <<>>)
     ELSE \E shouldSync \in BOOLEAN, fail \in GitFails :
            IF ~shouldSync
            THEN /\ UNCHANGED <<home, repo, backup, proj, ext, git>>
                 /\ Goto(pass, "resolve", <<>>)
            ELSE LET r == pushRepo(Fs, git, fail)
                     e == Entry("pushRepo", "uncommitted", r.ok, r.calls)
                 IN /\ SetGit(r)
                    /\ IF r.ok THEN Goto(pass, "resolve", <<e, Report("Synced")>>)
                       ELSE Exit1(pass, <<e, Report("Sync failed")>>)

\* runSync: statuses of the tracked files; nothing to act on returns
RunSyncResolve ==
  /\ pass.pc = "resolve" /\ pass.cmd = "sync"
  /\ UNCHANGED <<home, repo, backup, proj, ext, last, git>>
  /\ LET files == getAllTrackedFiles(Fs)
         P == [pass EXCEPT !.files = files]
     IN IF \A f \in DOMAIN files : files[f] = "synced"
        THEN Return(P, <<Entry("status", "-", TRUE, <<>>), Report("Everything up to date")>>)
        ELSE Goto(P, "select", <<Entry("status", "-", TRUE, <<>>)>>)

\* runSync: the multiselect over the files that need action, and the split
\* into toSync (diverged, kept in toPush) and toLink (unlinked).  There is
\* no confirmation prompt.
SelectSync ==
  /\ pass.pc = "select" /\ pass.cmd = "sync"
  /\ UNCHANGED <<home, repo, backup, proj, ext, last, git>>
  /\ \E selected \in SUBSET {f \in DOMAIN pass.files : pass.files[f] # "synced"} :
       IF selected = {} THEN Return(pass, <<Report("Nothing to do")>>)
       ELSE LET P == [pass EXCEPT
                        !.selected = selected,
                        !.toPush = SeqOf({f \in selected : pass.files[f] = "diverged"}),
                        !.toLink = SeqOf({f \in selected : pass.files[f] = "unlinked"})]
            IN Goto(P, IF P.toPush # <<>> THEN "syncFiles" ELSE "syncLink", <<>>)

\* runSync, diverged files: link when the contents match, else open the
\* diff tool and syncFile
ExecSync ==
  /\ pass.pc = "syncFiles"
  /\ UNCHANGED last
  /\ \E okBackup \in BOOLEAN, edit \in DiffEdits, ok \in BOOLEAN, self \in SelfCopy :
       LET path == pass.toPush[pass.i]
           match == filesMatch(Fs, path)
           r == IF match THEN linkFile(Fs, path, okBackup)
                ELSE syncFile(openDiffTool(Fs, path, edit), path, ok, self)
           e == MutEntry(IF match THEN "linkFile" ELSE "syncFile", path, r)
       IN /\ SetFs(r.fs)
          /\ git' = IF r.fs.repo[path] # repo[path]
                    THEN [git EXCEPT !.dirty = @ \cup {path}] ELSE git
          /\ IF r.threw THEN Exit1(pass, <<e, Report("error")>>)
             ELSE Step(pass, pass.toPush,
                       IF pass.toLink # <<>> THEN "syncLink" ELSE "syncPush", <<e>>, <<>>)

\* runSync, unlinked files
ExecSyncLink ==
  /\ pass.pc = "syncLink"
  /\ UNCHANGED <<last, git>>
  /\ \E okBackup \in BOOLEAN :
       LET path == pass.toLink[pass.i]
           r == linkFile(Fs, path, okBackup)
       IN /\ SetFs(r.fs)
          /\ Step(pass, pass.toLink, IF pass.toPush # <<>> THEN "syncPush" ELSE "outro",
                  <<MutEntry("linkFile", path, r)>>, <<Report("Linked")>>)

\* runSync: commit and push when a diverged file was synced; a failure is
\* process.exit(1)
ExecSyncPush ==
  /\ pass.pc = "syncPush"
  /\ UNCHANGED last
  /\ \E fail \in GitFails :
       LET r == pushRepo(Fs, git, fail)
       IN /\ SetGit(r)
          /\ IF r.ok THEN Goto(pass, "outro", <<GitEntry("pushRepo", r), Report("Synced")>>)
             ELSE Exit1(pass, <<GitEntry("pushRepo", r), Report("Sync failed")>>)

\* the "Push to remote?" prompt that ends addFile and removeFile
PushPrompt(P, s, g, entries) ==
  \E shouldPush \in BOOLEAN, fail \in GitFails :
    IF ~shouldPush
    THEN /\ SetFs(s) /\ git' = g
         /\ Return(P, entries \o <<Report("Committed locally")>>)
    ELSE LET r == push(s, g, fail)
         IN /\ SetGit(r)
            /\ IF r.ok
               THEN Return(P, entries \o <<GitEntry("push", r), Report("Pushed"),
                                           Report("Done")>>)
               ELSE Exit1(P, entries \o <<GitEntry("push", r), Report("Push failed")>>)

\* existsSync(absolutePath) for the argument of addFile; the file of a
\* location other than HOME is ext
argExists(s, loc, p) == IF loc = "home" THEN existsSync(s, HOME, p) ELSE IsFile(s.ext)

\* addFile up to ensureRepo: the target must exist and its absolute path
\* must start with the string HOME
AddCheck ==
  /\ pass.pc = "addCheck"
  /\ UNCHANGED <<home, repo, backup, proj, ext, last, git>>
  /\ IF ~argExists(Fs, pass.loc, pass.arg)
     THEN Exit1(pass, <<Report("File not found")>>)
     ELSE IF ~startsWith(absolutePath(pass.loc, pass.arg), HomeChars)
     THEN Exit1(pass, <<Report("File must be inside HOME")>>)
     ELSE Goto(pass, "ensure", <<>>)

\* addFile after ensureRepo for an argument whose relative path starts
\* with "..": join(DOTFILES_DIR, relativePath) is a file next to the
\* repository (pass.stray), join(HOME, relativePath) is the argument (ext)
addFileEscaping ==
  IF IsFile(pass.stray)
  THEN /\ UNCHANGED <<home, repo, backup, proj, ext, git>>
       /\ Return(pass, <<Report("already tracked"), Report("Nothing to do")>>)
  ELSE \E ok \in BOOLEAN, failCommit \in GitFails :
         LET w == bunWrite(ext, FALSE, ok, "same")
             e == Entry("copyToRepo", pass.arg, w # Throws, <<>>)
             cm == commitRepo(Fs, git, failCommit)
         IN IF w = Throws
            THEN /\ UNCHANGED <<home, repo, backup, proj, ext, git>>
                 /\ Exit1(pass, <<e, Report("error")>>)
            ELSE PushPrompt([pass EXCEPT !.stray = w], cm.fs, cm.git,
                            <<e, GitEntry("commitRepo", cm), Report("Added")>>)

\* addFile after ensureRepo: copy into the repo, commit, offer to push
AddFile ==
  /\ pass.pc = "add"
  /\ UNCHANGED last
  /\ IF ~relativeIsBelowHome(pass.loc) THEN addFileEscaping
     ELSE IF isInRepo(Fs, pass.arg)
     THEN /\ UNCHANGED <<home, repo, backup, proj, ext, git>>
          /\ Return(pass, <<Report("already tracked"), Report("Nothing to do")>>)
     ELSE \E ok \in BOOLEAN, self \in SelfCopy, failCommit \in GitFails :
            LET r == copyToRepo(Fs, pass.arg, ok, self)
                g == IF r.fs.repo[pass.arg] # repo[pass.arg]
                     THEN [git EXCEPT !.dirty = @ \cup {pass.arg}] ELSE git
                cm == commitRepo(r.fs, g, failCommit)
             IN IF r.threw
                THEN /\ SetFs(r.fs) /\ git' = g
                     /\ Exit1(pass, <<MutEntry("copyToRepo", pass.arg, r), Report("error")>>)
                ELSE PushPrompt(pass, cm.fs, cm.git,
                                <<MutEntry("copyToRepo", pass.arg, r),
                                  GitEntry("commitRepo", cm), Report("Added")>>)

\* removeFile after ensureRepo: the path must be tracked and the user must
\* confirm; remove from the repo, commit, offer to push
RemoveFile ==
  /\ pass.pc = "rm"
  /\ UNCHANGED last
  /\ IF ~isInRepo(Fs, pass.arg)
     THEN /\ UNCHANGED <<home, repo, backup, proj, ext, git>>
          /\ Exit1(pass, <<Report("not tracked")>>)
     ELSE \E confirm \in BOOLEAN, failCommit \in GitFails :
            IF ~confirm
            THEN /\ UNCHANGED <<home, repo, backup, proj, ext, git>>
                 /\ Return(pass, <<Report("Cancelled")>>)
            ELSE LET r == removeFromRepo(Fs, pass.arg)
                     g == [git EXCEPT !.dirty = @ \cup {pass.arg}]
                     cm == commitRepo(r.fs, g, failCommit)
                 IN PushPrompt(pass, cm.fs, cm.git,
                               <<MutEntry("removeFromRepo", pass.arg, r),
                                 GitEntry("commitRepo", cm), Report("Removed")>>)

PassNext ==
  \/ EnsureRepo
  \/ RunGlobalResolve
  \/ RunLocalResolve
  \/ Select
  \/ Partition
  \/ Confirm
  \/ ExecPull
  \/ ExecPullLink
  \/ ExecPushCopy
  \/ ExecPushRepo
  \/ ExecLink
  \/ ExecCopy
  \/ SyncPull
  \/ SyncUncommitted
  \/ RunSyncResolve
  \/ SelectSync
  \/ ExecSync
  \/ ExecSyncLink
  \/ ExecSyncPush
  \/ AddCheck
  \/ AddFile
  \/ RemoveFile

PassSpec == PassInit /\ [][PassNext]_vars

(***************************************************************************)
(* Properties                                                              *)
(***************************************************************************)
\* what the home path held, read through links, before the last call
PreHome(p) == readAt(last.pre, HOME, p)

Called(op, p) == last.op = op /\ last.path = p

\* C1: whenever linkFile removes or replaces an existing home entry that was
\* not already the correct symlink, the backup root holds exactly the content
\* the entry had before the call (so a failed backup step leaves the entry alone).
C1_LinkBacksUpBeforeReplacing ==
  \A p \in Paths :
    (/\ Called("linkFile", p)
     /\ existsSync(last.pre, HOME, p)
     /\ last.pre.home[p] # LinkRepo
     /\ home[p] # last.pre.home[p])
    => backup[p] = PreHome(p)

C3_CopyFromRepoBacksUpFirst ==
  \A p \in Paths :
    (Called("copyFromRepo", p) /\ last.root = HOME /\ existsSync(last.pre, HOME, p))
    => /\ (readAt(Fs, HOME, p) # PreHome(p) => backup[p] = PreHome(p))
       /\ (~last.threw =>
             /\ last.backedUp
             /\ backup[p] = PreHome(p)
             /\ (last.pre.home[p] # LinkRepo => readAt(Fs, HOME, p) = last.pre.repo[p])
             /\ (last.pre.home[p].kind = "file" => home[p] = File(last.pre.repo[p])))

C3_Witness ==
  \E p \in Paths :
    /\ Called("copyFromRepo", p) /\ last.root = HOME /\ ~last.threw
    /\ last.pre.home[p].kind = "file"
    /\ last.pre.home[p].data # last.pre.repo[p]
    /\ backup[p] = last.pre.home[p].data
    /\ last.pre.backup[p] # backup[p]
    /\ home[p] = File(last.pre.repo[p])

\* C4: a copyFromRepo(path, HOME) call that immediately follows the same call,
\* both returning normally, leaves home, repo and backup as the first call
\* left them.
C4_CopyFromRepoTwiceSameAsOnce ==
  \A p \in Paths :
    (/\ Called("copyFromRepo", p) /\ last.root = HOME
     /\ last.repeat /\ ~last.threw /\ ~last.prevThrew)
    => Fs = last.pre

\* C5: getFileStatus returns unlinked for every path whose repo copy is absent.
C5_AbsentRepoIsUnlinked ==
  \A p \in Paths :
    (Called("getFileStatus", p) /\ ~repoExists(Fs, p)) => last.status = "unlinked"

C7_ContentDecidesStatus ==
  \A p \in Paths :
    (/\ Called("getFileStatus", p)
     /\ repoExists(Fs, p)
     /\ existsSync(Fs, HOME, p)
     /\ home[p] # LinkRepo)
    => /\ (readAt(Fs, HOME, p) = repo[p] => last.status = "synced")
       /\ (last.status = "diverged" => readAt(Fs, HOME, p) # repo[p])

\* C8: after the VCS signals are applied the tracked paths are the manifest
\* paths present in the repo; one in both sets is conflict, one only in the
\* remote-changed set is remote, one only in the local-uncommitted set is
\* local, and one in neither has its filesystem-only status.
C8_VcsPrecedence ==
  last.op = "resolveStatuses" =>
    /\ DOMAIN last.files = {q \in Paths : repoExists(Fs, q)}
    /\ \A f \in DOMAIN last.files :
         /\ (f \in last.remote /\ f \in last.local => last.files[f] = "conflict")
         /\ (f \in last.remote /\ f \notin last.local => last.files[f] = "remote")
         /\ (f \notin last.remote /\ f \in last.local => last.files[f] = "local")
         /\ (f \notin last.remote /\ f \notin last.local
               => last.files[f] = getFileStatus_r2(Fs, f, last.root))

C8_Witness ==
  /\ last.op = "resolveStatuses"
  /\ \E f \in DOMAIN last.files :
       /\ f \in last.remote /\ f \in last.local
       /\ getFileStatus_r2(Fs, f, last.root) = "synced"
       /\ last.files[f] = "conflict"

\* C9: linkFile on a path with a repo file and nothing at the home path leaves
\* the home entry a symlink to the repo copy, the repo and backup untouched,
\* writes no backup, and getFileStatus then returns synced.
C9_LinkFreshPath ==
  \A p \in Paths :
    (/\ Called("linkFile", p)
     /\ last.pre.home[p] \in {NoEntry, NoDirEntry}
     /\ repoExists(last.pre, p))
    => /\ ~last.threw
       /\ home[p] = LinkRepo
       /\ repo = last.pre.repo
       /\ backup = last.pre.backup
       /\ ~last.backedUp
       /\ getFileStatus(Fs, p) = "synced"

C9_Witness ==
  \E p \in Paths :
    /\ Called("linkFile", p)
    /\ last.pre.home[p] = NoDirEntry
    /\ repoExists(last.pre, p)
    /\ home[p] = LinkRepo
    /\ getFileStatus(Fs, p) = "synced"

\* C10: copyToRepo from a root holding a regular file at the path, when it
\* returns normally, leaves the repo copy equal to that file (also when the
\* repo parent directory was missing), the source file and the backup root
\* unchanged, and writes no backup.
SourceIsRegular(s, root, p) ==
  IF root = CWD THEN IsFile(s.proj[p]) ELSE s.home[p].kind = "file"

C10_CopyToRepo ==
  \A p \in Paths :
    (/\ last.op \in {"copyToRepo", "copyToRepo_r2"} /\ last.path = p
     /\ SourceIsRegular(last.pre, last.root, p)
     /\ ~last.threw)
    => /\ repo[p] = readAt(last.pre, last.root, p)
       /\ home = last.pre.home
       /\ proj = last.pre.proj
       /\ ext = last.pre.ext
       /\ backup = last.pre.backup
       /\ ~last.backedUp

C10_Witness ==
  \E p \in Paths :
    /\ Called("copyToRepo_r2", p) /\ last.root = CWD /\ ~last.threw
    /\ last.pre.repo[p] = NoDir
    /\ IsFile(last.pre.proj[p])
    /\ last.pre.home[p].kind = "file"
    /\ last.pre.home[p].data # last.pre.proj[p]
    /\ repo[p] = last.pre.proj[p]

(***************************************************************************)
(* Properties of a run of the command line (PassSpec)                      *)
(***************************************************************************)
LogIdx == 1..Len(log)

\* the partition has put at least one path into a bucket
Partitioned == pass.toPull # <<>> \/ pass.toPush # <<>> \/ pass.toLink # <<>>

\* log[k] is a call of the mutation engine
IsMutation(k) ==
  log[k].ev \in {"linkFile", "copyToRepo", "copyFromRepo", "syncFile", "removeFromRepo"}

\* log[k] is a git operation that commits or pushes
IsCommitOrPush(k) == log[k].ev \in {"pushRepo", "commitRepo", "push"}

\* C11: a selected path with status remote is in the pull bucket once the
\* pass has partitioned, and every link or copy-from-repo applied to it is
\* preceded by a pull, in global and in local mode
C11_RemotePullsBeforeMutation ==
  pass.cmd \in {"global", "local"} =>
    \A f \in pass.selected :
      pass.files[f] = "remote" =>
        /\ Partitioned => f \in Range(pass.toPull)
        /\ \A k \in LogIdx :
             log[k].path = f /\ log[k].ev \in {"linkFile", "copyFromRepo"}
               => \E j \in 1..(k - 1) : log[j].ev = "pullRepo"

\* log[k] is a link or copy-from-repo of a path of the link/copy bucket
IsLinkBucketOp(k) ==
  log[k].ev \in {"linkFile", "copyFromRepo"} /\ log[k].path \in Range(pass.toLink)

\* log[k] is an operation of the push bucket: a copy into the repo of one
\* of its paths, or its commit+push
IsPushBucketOp(k) ==
  \/ log[k].ev \in {"copyToRepo", "syncFile"} /\ log[k].path \in Range(pass.toPush)
  \/ log[k].ev = "pushRepo" /\ log[k].path = "-"

\* the pull bucket has completed before log[k]: the pull and the link of
\* each of its paths
PullBucketDoneBefore(k) ==
  /\ \E j \in 1..(k - 1) : log[j].ev = "pullRepo"
  /\ \A f \in Range(pass.toPull) :
       \E j \in 1..(k - 1) : log[j].ev = "linkFile" /\ log[j].path = f

\* C12: buckets run in the order pull, push, link/copy: no link or
\* copy-from-repo of the link/copy bucket starts before the commit+push of a
\* non-empty push bucket has completed, and no push-bucket operation starts
\* before a non-empty pull bucket has completed
C12_BucketOrder ==
  \A k \in LogIdx :
    /\ IsLinkBucketOp(k) /\ pass.toPush # <<>>
         => \E j \in 1..(k - 1) : log[j].ev = "pushRepo" /\ log[j].path = "-"
    /\ IsPushBucketOp(k) /\ pass.toPull # <<>> => PullBucketDoneBefore(k)

\* a pass with an empty push bucket has made no commit and no push call
EmptyPushBucketNoCommitPush ==
  pass.toPush = <<>> => \A k \in LogIdx : ~IsCommitOrPush(k)

\* the one commit+push outside the push bucket: the "Sync?" of runSync
IsUncommittedSync(k) ==
  pass.cmd = "sync" /\ log[k].ev = "pushRepo" /\ log[k].path = "uncommitted"

C14_FailedPullAborts ==
  \A j \in LogIdx :
    log[j].ev = "pullRepo" /\ ~log[j].ok
      => \A k \in (j + 1)..Len(log) : ~IsMutation(k) /\ ~IsCommitOrPush(k)

\* C15: when the commit+push of a confirmed push bucket has failed, the
\* pass does not report the push as succeeded and it ends with exit code 1
C15_FailedPushIsFatal ==
  \A j \in LogIdx :
    log[j].ev = "pushRepo" /\ log[j].path = "-" /\ ~log[j].ok
      => /\ \A k \in (j + 1)..Len(log) :
              ~(log[k].ev = "report" /\ log[k].path \in {"Pushed", "Synced", "Done"})
         /\ pass.pc = "done" => pass.exit = "1"

\* C16: when the clone has failed the process has exited with code 1, the
\* filesystem is as the run found it and nothing else was done: no status
\* resolution, no mutation, no pull, commit or push; and status resolution
\* runs only with the repository cloned
C16_CloneFailureAborts ==
  /\ \A j \in LogIdx :
       log[j].ev = "cloneRepo" /\ ~log[j].ok
         => /\ pass.pc = "done" /\ pass.exit = "1"
            /\ Fs = pass.start
            /\ \A k \in LogIdx :
                 /\ ~IsMutation(k) /\ ~IsCommitOrPush(k)
                 /\ log[k].ev \notin {"status", "pullRepo"}
  /\ pass.pc = "resolve" => isRepoCloned(git)
  /\ \A k \in LogIdx : log[k].ev = "status" => isRepoCloned(git)

\* a run that found no repository and whose clone failed
C16_Witness ==
  /\ \E j \in LogIdx : log[j].ev = "cloneRepo" /\ ~log[j].ok
  /\ pass.exit = "1"
  /\ ~isRepoCloned(git)

\* the paths of all buckets
Bucketed == Range(pass.toPull) \cup Range(pass.toPush) \cup Range(pass.toLink)

\* C17: in global mode a selected conflict path is in the push or the pull
\* bucket only by the user's choice of that side, and a conflict path the
\* user skipped (or whose prompt was cancelled) is in no bucket, its repo
\* copy and home entry are as the pass found them, and it is in nothing the
\* pass committed or pushed
C17_SkippedConflictUntouched ==
  pass.cmd = "global" =>
    \A f \in DOMAIN pass.choice :
      /\ f \in Range(pass.toPush) => pass.choice[f] = "push"
      /\ f \in Range(pass.toPull) => pass.choice[f] = "pull"
      /\ f \notin Range(pass.toLink)
      /\ pass.choice[f] \in {"skip", "cancel"}
           => /\ f \notin Bucketed
              /\ repo[f] = pass.start.repo[f]
              /\ home[f] = pass.start.home[f]
              /\ f \notin git.committed \cup git.pushed

\* C18: a pass in which a mutation failed for one path has, when it ends,
\* reported the failure and still called the mutation of every other path
\* of its buckets
C18_FailedPathDoesNotAbortBatch ==
  pass.cmd \in {"global", "local", "sync"} /\ pass.pc = "done"
    => \A j \in LogIdx :
         IsMutation(j) /\ ~log[j].ok
           => /\ \E k \in (j + 1)..Len(log) : log[k].ev = "report"
              /\ \A f \in Bucketed : \E k \in LogIdx : IsMutation(k) /\ log[k].path = f

\* the repo copy of the argument when addFile / removeFile looked at it
ArgRepoBefore ==
  IF \E k \in LogIdx : log[k].ev = "cloneRepo" THEN RemoteTip
  ELSE pass.start.repo[pass.arg]

\* C19: after dot <file> has added an untracked home file and exited 0, the
\* repo copy holds the content the home file had and the home path is a
\* symlink to the repo copy, so its status is synced
C19_AddLeavesSymlink ==
  /\ pass.cmd = "add" /\ pass.pc = "done" /\ pass.exit = "0"
  /\ \E k \in LogIdx : log[k].ev = "copyToRepo" /\ log[k].ok
  => /\ repo[pass.arg] = readAt(pass.start, HOME, pass.arg)
     /\ home[pass.arg] = LinkRepo
     /\ getFileStatus(Fs, pass.arg) = "synced"

\* C20: after a confirmed dot rm <file> on a tracked file has exited 0, the
\* file is gone from the repo and the home path is a regular file holding
\* the content the repo copy had
C20_RemoveRestoresHome ==
  /\ pass.cmd = "rm" /\ pass.pc = "done" /\ pass.exit = "0"
  /\ \E k \in LogIdx : log[k].ev = "removeFromRepo"
  => /\ ~isInRepo(Fs, pass.arg)
     /\ home[pass.arg] = File(ArgRepoBefore)

\* the absolute path of the argument lies inside the home root
ArgInsideHome == startsWith(absolutePath(pass.loc, pass.arg), HomeChars \o <<"/">>)

\* C21: an add whose target does not exist, or whose absolute path lies
\* outside the home root, ends with exit code 1, with nothing written into
\* or next to the repo and without a commit
C21_BadAddTargetIsFatal ==
  /\ pass.cmd = "add" /\ pass.pc = "done"
  /\ ~argExists(pass.start, pass.loc, pass.arg) \/ ~ArgInsideHome
  => /\ pass.exit = "1"
     /\ repo = pass.start.repo
     /\ pass.stray = Absent
     /\ \A k \in LogIdx : log[k].ev \notin {"copyToRepo", "commitRepo", "push"}

(***************************************************************************)
(* Properties of content comparison (CompareSpec)                          *)
(***************************************************************************)
\* the repo copy or the copy at root is missing or unreadable
CopyNotReadable(p, root) == ~IsFile(repo[p]) \/ ~IsFile(readAt(Fs, root, p))

\* with the repo copy or the home copy missing or unreadable, filesMatch
\* returns false and does not throw
FilesMatchFailsClosed ==
  \A p \in Paths :
    Called("filesMatch", p) /\ CopyNotReadable(p, HOME)
      => last.status = "differ" /\ ~last.threw

\* C22: content comparison fails closed: with the repo copy or the target
\* copy missing or unreadable, filesMatch returns false, and getFileStatus
\* called on a target that is not the symlink to the repo copy does not
\* return synced; neither throws
C22_ComparisonFailsClosed ==
  /\ FilesMatchFailsClosed
  /\ \A p \in Paths :
       /\ Called("getFileStatus_r2", p)
       /\ CopyNotReadable(p, last.root)
       /\ ~(last.root = HOME /\ resolvesToRepo(Fs, p))
       => last.status # "synced" /\ ~last.threw

(***************************************************************************)
(* Further properties of a run of the command line (PassSpec)              *)
(***************************************************************************)
\* the pass has partitioned its selection
PartitionDone ==
  pass.cmd \in {"global", "local", "sync"} /\ pass.selected # {} /\ pass.pc # "partition"

\* the buckets that hold path f
BucketsOf(f) ==
  {b \in {"pull", "push", "link"} :
     \/ b = "pull" /\ f \in Range(pass.toPull)
     \/ b = "push" /\ f \in Range(pass.toPush)
     \/ b = "link" /\ f \in Range(pass.toLink)}

\* C23: once a pass has partitioned, a selected unlinked path is in the
\* link (copy) bucket only, a local one in the push bucket only, a remote
\* one in the pull bucket only, a synced one in no bucket in link-mode and
\* in the copy bucket in copy-mode; every path is in at most one bucket and
\* an unselected path is in none
C23_PartitionByStatus ==
  PartitionDone =>
    \A f \in DOMAIN pass.files :
      /\ Cardinality(BucketsOf(f)) <= 1
      /\ f \notin pass.selected => BucketsOf(f) = {}
      /\ f \in pass.selected =>
           /\ pass.files[f] = "unlinked" => BucketsOf(f) = {"link"}
           /\ pass.files[f] = "local" => BucketsOf(f) = {"push"}
           /\ pass.files[f] = "remote" => BucketsOf(f) = {"pull"}
           /\ pass.files[f] = "synced" =>
                BucketsOf(f) = IF pass.cmd = "local" THEN {"link"} ELSE {}

\* log[k] is a pull, a commit or a push
IsVcsWrite(k) == log[k].ev = "pullRepo" \/ IsCommitOrPush(k)

\* the user has answered "Proceed?" with yes before log[k]
ConfirmedBefore(k) == \E j \in 1..(k - 1) : log[j].ev = "confirm"

\* home and backup are as the run found them, and so is the repo unless
\* ensureRepo had to clone it
UnchangedSinceStart ==
  /\ home = pass.start.home
  /\ backup = pass.start.backup
  /\ (\A k \in LogIdx : log[k].ev # "cloneRepo") => repo = pass.start.repo

\* C24 as stated: in every pass no mutation and no pull or push is made
\* before the user has selected and confirmed, and a pass that ended
\* without a confirmation has left home, repo and backup unchanged
C24_NothingBeforeConfirm ==
  pass.cmd \in {"global", "local", "sync"} =>
    /\ \A k \in LogIdx : IsMutation(k) \/ IsVcsWrite(k) => ConfirmedBefore(k)
    /\ (pass.pc = "done" /\ \A k \in LogIdx : log[k].ev # "confirm")
         => UnchangedSinceStart

\* C24 amended: a clone is the first call of a run and statuses are
\* resolved before anything is mutated.  In global and local mode no
\* mutation and no pull, commit or push is made before the user has
\* selected and confirmed, and a pass that ended without a confirmation has
\* left home, repo and backup unchanged.  runSync pulls, and on "Sync?"
\* commits and pushes, before the selection and asks for no confirmation:
\* it mutates no file before a selection is made, and cancelling the
\* selection leaves home and backup unchanged.
C24_PhaseOrder ==
  pass.cmd \in {"global", "local", "sync"} =>
    /\ \A k \in LogIdx :
         /\ log[k].ev = "cloneRepo" => k = 1
         /\ IsMutation(k) => \E j \in 1..(k - 1) : log[j].ev = "status"
         /\ log[k].ev = "confirm" => pass.selected # {}
    /\ pass.cmd \in {"global", "local"} =>
         /\ \A k \in LogIdx : IsMutation(k) \/ IsVcsWrite(k) => ConfirmedBefore(k)
         /\ (pass.pc = "done" /\ \A k \in LogIdx : log[k].ev # "confirm")
              => UnchangedSinceStart
    /\ pass.cmd = "sync" =>
         /\ \A k \in LogIdx :
              /\ IsMutation(k) => pass.selected # {}
              /\ IsCommitOrPush(k) /\ pass.selected = {} => IsUncommittedSync(k)
         /\ pass.pc = "done" /\ pass.selected = {}
              => home = pass.start.home /\ backup = pass.start.backup

\* a global or local pass that partitioned its selection and was declined
\* at "Proceed?"
C24_Witness ==
  /\ pass.cmd \in {"global", "local"} /\ pass.pc = "done" /\ pass.exit = "0"
  /\ pass.selected # {} /\ Partitioned
  /\ log # <<>> /\ log[Len(log)] = Report("Cancelled")
  /\ UnchangedSinceStart

\* log[k] brings push-bucket path f into the repo: copyToRepo in global and
\* local mode, syncFile (or linkFile when the contents match) in runSync
IsPushBucketCopy(k, f) ==
  /\ log[k].path = f /\ f \in Range(pass.toPush)
  /\ log[k].ev \in IF pass.cmd = "sync" THEN {"syncFile", "linkFile"} ELSE {"copyToRepo"}

\* the commit+push calls of the log, and those made for the push bucket
PushCalls == {k \in LogIdx : IsCommitOrPush(k)}
BucketPushCalls == {k \in PushCalls : ~IsUncommittedSync(k)}

\* every push-bucket path was copied before log[k] and none after it
AfterAllPushCopies(k) ==
  /\ \A f \in Range(pass.toPush) : \E j \in 1..(k - 1) : IsPushBucketCopy(j, f)
  /\ \A j \in LogIdx : \A f \in Range(pass.toPush) : IsPushBucketCopy(j, f) => j < k

\* C25 as stated: every commit+push call of a pass comes after the copies
\* of all push-bucket paths, a pass makes at most one, and a pass that ran
\* to its end with a non-empty push bucket has made exactly one
C25_OneCommitPushPerPass ==
  pass.cmd \in {"global", "local", "sync"} =>
    /\ \A k \in PushCalls : AfterAllPushCopies(k)
    /\ Cardinality(PushCalls) <= 1
    /\ pass.pc = "done" /\ pass.exit = "0" /\ pass.toPush # <<>>
       /\ (pass.cmd = "sync" \/ \E k \in LogIdx : log[k].ev = "confirm")
         => Cardinality(PushCalls) = 1

\* C25 amended: the commit+push call made for the push bucket comes after
\* the copies of all its paths, a pass makes at most one such call, and
\* exactly one when it ran to its end with a non-empty push bucket.  runSync
\* may make one more commit+push before the selection, for the uncommitted
\* changes of the repo, so a pass issues at most two.
C25_OneCommitPushPerBucket ==
  pass.cmd \in {"global", "local", "sync"} =>
    /\ \A k \in BucketPushCalls : AfterAllPushCopies(k)
    /\ Cardinality(BucketPushCalls) <= 1
    /\ Cardinality(PushCalls \ BucketPushCalls) <= 1
    /\ \A k \in PushCalls \ BucketPushCalls : \A j \in 1..(k - 1) : ~IsMutation(j)
    /\ pass.pc = "done" /\ pass.exit = "0" /\ pass.toPush # <<>>
       /\ (pass.cmd = "sync" \/ \E k \in LogIdx : log[k].ev = "confirm")
         => Cardinality(BucketPushCalls) = 1

\* a finished pass whose push bucket held both paths and whose one
\* commit+push followed both copies
C25_Witness ==
  /\ pass.cmd \in {"global", "local", "sync"}
  /\ pass.pc = "done" /\ pass.exit = "0" /\ Len(pass.toPush) = 2
  /\ Cardinality(BucketPushCalls) = 1
  /\ \A k \in BucketPushCalls : AfterAllPushCopies(k) /\ log[k].ok

\* what C26 asks of the outcome r of a pushRepo called in git state g in
\* which the subcommand fail (if any) fails: the calls are add, commit, push
\* up to the first failing one, the result is a failure exactly when one
\* failed, and a commit with nothing to commit ends the call with success
PushRepoContract(r, g, fail) ==
  CASE fail = "add" -> r.calls = <<"add">> /\ ~r.ok /\ r.git = g
    [] fail # "add" /\ g.dirty = {} -> r.calls = <<"add", "commit">> /\ r.ok /\ r.git = g
    [] fail = "commit" /\ g.dirty # {} -> r.calls = <<"add", "commit">> /\ ~r.ok /\ r.git = g
    [] fail = "push" /\ g.dirty # {} ->
         r.calls = <<"add", "commit", "push">> /\ ~r.ok /\ r.git = gitCommitAll(g)
    [] fail = "none" /\ g.dirty # {} ->
         r.calls = <<"add", "commit", "push">> /\ r.ok /\ r.git = gitPush(gitCommitAll(g))

\* C26: wherever a pass is about to call pushRepo, the call stages, commits
\* and pushes in that order, stops at the first failing step with a failure
\* result, and returns success when the commit has nothing to commit; this
\* is asked of the pushRepo of github.ts (runSync) and of the older pushRepo
\* (runGlobalMode, runLocalMode)
C26_PushRepoStopsAtFirstFailure ==
  /\ pass.pc \in {"uncommitted", "syncPush"} =>
       \A fail \in GitFails : PushRepoContract(pushRepo(Fs, git, fail), git, fail)
  /\ pass.pc = "pushRepo" =>
       \A fail \in GitFails : PushRepoContract(pushRepo_r0(Fs, git, fail), git, fail)

\* ---------------------------------------------------------------------
\* Enumeration of the repository tree (ScanSpec).  Here repo is the tree
\* under DOTFILES_DIR: for each directory the entries readdirSync returns,
\* in its order.
\* ---------------------------------------------------------------------

\* the directories: the root, one subdirectory and a .git directory
DirIds == {"root", "d", "git"}
NoTarget == "-"

\* the kinds of directory entry; a link to a directory carries the
\* directory it resolves to
FileEntry(n) == [name |-> n, kind |-> "file", to |-> NoTarget]
DirEntry(n, id) == [name |-> n, kind |-> "dir", to |-> id]
LinkToDir(n, id) == [name |-> n, kind |-> "link", to |-> id]
BrokenLink(n) == [name |-> n, kind |-> "broken", to |-> NoTarget]

\* an entry that may be missing
Opt(S) == {<<>>} \cup {<<e>> : e \in S}

\* the listings of the root: b, d, README.md, z
RootDirs ==
  {b \o d \o r \o z :
     b \in Opt({FileEntry("b"), BrokenLink("b"), LinkToDir("b", "root")}),
     d \in Opt({DirEntry("d", "d"), LinkToDir("d", "d")}),
     r \in Opt({FileEntry("README.md")}),
     z \in Opt({FileEntry("z"), BrokenLink("z")})}

\* the listings of d: .git or .gitignore, .DS_Store, u, y
SubDirs ==
  {g \o s \o u \o y :
     g \in Opt({DirEntry(".git", "git"), FileEntry(".gitignore")}),
     s \in Opt({FileEntry(".DS_Store")}),
     u \in Opt({FileEntry("u"), BrokenLink("u"), LinkToDir("u", "root")}),
     y \in Opt({FileEntry("y")})}

Trees == [root : RootDirs, d : SubDirs, git : {<<FileEntry("config")>>}]

\* sync.ts: const IGNORED
IGNORED == {".git", "README.md", ".DS_Store", "setup.sh"}

\* README expandDir: the names with entry.startsWith(".git")
GitPrefixed == {".git", ".gitignore"}

\* the number of symbolic links the kernel follows in one path before
\* statSync fails with ELOOP
MaxLinks == 2

\* statSync(fullPath) throws: the entry is a link to nothing, or the path
\* holds more symbolic links than the kernel follows
statThrows(e, nlinks) ==
  \/ e.kind = "broken"
  \/ e.kind = "link" /\ nlinks + 1 > MaxLinks

\* statSync(fullPath).isDirectory(): statSync follows symbolic links
isDirectory(e) == e.to # NoTarget

\* one call of the walk: its relative path, the directory it lists and the
\* number of symbolic links on its path
DirCall(rel, id, nlinks) == [rel |-> rel, id |-> id, links |-> nlinks]

\* the loop of scanDir / expandDir from entry i on, inside one try block:
\* an ignored entry is skipped, a throwing statSync ends the loop of this
\* directory, a directory is walked by a nested call, anything else is
\* pushed.  acc holds the files pushed and the calls made so far.
RECURSIVE walk(_, _, _, _, _, _, _)
walk(tree, ign, id, rel, nlinks, i, acc) ==
  IF i > Len(tree[id]) THEN acc
  ELSE LET entry == tree[id][i]
           relPath == Append(rel, entry.name)
       IN IF entry.name \in ign THEN walk(tree, ign, id, rel, nlinks, i + 1, acc)
          ELSE IF statThrows(entry, nlinks) THEN acc
          ELSE IF isDirectory(entry)
          THEN LET n == IF entry.kind = "link" THEN nlinks + 1 ELSE nlinks
                   sub == walk(tree, ign, entry.to, relPath, n, 1,
                               [acc EXCEPT !.dirs = Append(@, DirCall(relPath, entry.to, n))])
               IN walk(tree, ign, id, rel, nlinks, i + 1, sub)
          ELSE walk(tree, ign, id, rel, nlinks, i + 1,
                    [acc EXCEPT !.files = Append(@, relPath)])

\* sync.ts getAllTrackedFiles: scanDir(DOTFILES_DIR, "")
scanDir(tree) ==
  walk(tree, IGNORED, "root", <<>>, 0, 1,
       [files |-> <<>>, dirs |-> <<DirCall(<<>>, "root", 0)>>])

\* README expandDir(dirPath, relativePath) of a manifest directory
expandDir(tree) ==
  walk(tree, GitPrefixed, "root", <<>>, 0, 1,
       [files |-> <<>>, dirs |-> <<DirCall(<<>>, "root", 0)>>])

NoScan == [op |-> "-", ign |-> {}, files |-> <<>>, dirs |-> <<>>]

ScanInit ==
  /\ repo \in Trees
  /\ home = NoFs.home /\ backup = NoFs.backup /\ proj = NoFs.proj /\ ext = Absent
  /\ last = NoScan
  /\ git = NoGit /\ pass = NoPass /\ log = <<>>

ScanDir ==
  /\ last' = [op |-> "scanDir", ign |-> IGNORED,
              files |-> scanDir(repo).files, dirs |-> scanDir(repo).dirs]
  /\ UNCHANGED <<home, repo, backup, proj, ext>>

ExpandDir ==
  /\ last' = [op |-> "expandDir", ign |-> GitPrefixed,
              files |-> expandDir(repo).files, dirs |-> expandDir(repo).dirs]
  /\ UNCHANGED <<home, repo, backup, proj, ext>>

ScanNext ==
  /\ (ScanDir \/ ExpandDir)
  /\ UNCHANGED <<git, pass, log>>

ScanSpec == ScanInit /\ [][ScanNext]_vars

\* ---------------------------------------------------------------------
\* Properties of the enumeration (ScanSpec)
\* ---------------------------------------------------------------------

\* the files of the tree that are reached through directories only and
\* have no ignored name on their path
RECURSIVE TreeFiles(_, _, _, _)
TreeFiles(tree, ign, id, rel) ==
  UNION {IF e.name \in ign THEN {}
         ELSE IF e.kind = "file" THEN {Append(rel, e.name)}
         ELSE IF e.kind = "dir" THEN TreeFiles(tree, ign, e.to, Append(rel, e.name))
         ELSE {} : e \in Range(tree[id])}

\* how often path f is in the sequence files
Occurrences(files, f) == Cardinality({k \in 1..Len(files) : files[k] = f})

\* C27: an enumeration makes no call on a path that holds a symbolic link,
\* enters no directory twice (so it ends, also when a link points to an
\* ancestor), and no path it returns has a name of the ignore set at any
\* depth
C27_NoDescentThroughSymlinks ==
  last.op \in {"scanDir", "expandDir"} =>
    /\ \A k \in 1..Len(last.dirs) : last.dirs[k].links = 0
    /\ \A j, k \in 1..Len(last.dirs) : j # k => last.dirs[j].id # last.dirs[k].id
    /\ \A k \in 1..Len(last.files) :
         \A j \in 1..Len(last.files[k]) : last.files[k][j] \notin last.ign

\* C28: an enumeration returns every non-ignored file of the tree exactly
\* once, whatever else the directories hold
C28_EveryFileOnce ==
  last.op \in {"scanDir", "expandDir"} =>
    \A f \in TreeFiles(repo, last.ign, "root", <<>>) : Occurrences(last.files, f) = 1

\* ---------------------------------------------------------------------
\* Further properties of the mutation engine
\* ---------------------------------------------------------------------

\* C29: after linkFile(path) has returned, the home path is the symlink to
\* the repo copy and the repo copy exists, so the link is not dangling; in
\* particular a home file is not replaced by a link to a missing repo copy
C29_LinkNeverDangles ==
  last.op = "linkFile" /\ ~last.threw =>
    /\ home[last.path] = LinkRepo
    /\ IsFile(repo[last.path])

\* last is a syncFile of a diverged path whose home entry was a regular file
SyncedRegularFile ==
  /\ last.op = "syncFile"
  /\ last.pre.home[last.path].kind = "file"
  /\ getFileStatus(last.pre, last.path) = "diverged"

\* C30: syncFile on a diverged path whose home entry is a regular file
\* leaves the repo copy equal to the home content before the call and the
\* home path the symlink to the repo copy, so that the status is synced;
\* when the copy fails the home file is still there, unchanged
C30_SyncFileKeepsHomeContent ==
  SyncedRegularFile =>
    IF last.threw
    THEN home = last.pre.home
    ELSE /\ repo[last.path] = readAt(last.pre, HOME, last.path)
         /\ home[last.path] = LinkRepo
         /\ getFileStatus(Fs, last.path) = "synced"

\* a syncFile that replaced a differing repo copy by the home content
C30_Witness ==
  /\ SyncedRegularFile /\ ~last.threw
  /\ IsFile(last.pre.repo[last.path])
  /\ last.pre.repo[last.path] # readAt(last.pre, HOME, last.path)
  /\ repo[last.path] = readAt(last.pre, HOME, last.path)
  /\ home[last.path] = LinkRepo

\* ---------------------------------------------------------------------
\* Properties of what a pass commits and publishes (PassSpec)
\* ---------------------------------------------------------------------

\* C31: in a pass whose only commit is the one made for its push bucket,
\* the paths committed and pushed are paths of that bucket: the uncommitted
\* repo change of a path that was not selected, or of a conflict path the
\* user skipped, is in neither
C31_CommitOnlyBucketPaths ==
  /\ pass.cmd \in {"global", "local", "sync"}
  /\ \A k \in LogIdx : ~IsUncommittedSync(k)
  => git.committed \cup git.pushed \subseteq Range(pass.toPush)

\* the pushRepo calls of github.ts in the log: those of runSync
PushRepoCalls == {k \in LogIdx : pass.cmd = "sync" /\ log[k].ev = "pushRepo"}

\* C32: every pushRepo that returned success ran git push, and when the
\* latest pushRepo of the run returned success no commit is left
\* unpublished, neither one made in this run nor one an earlier run left
C32_SuccessMeansPushed ==
  \A k \in PushRepoCalls :
    log[k].ok =>
      /\ "push" \in Range(log[k].calls)
      /\ (\A j \in PushRepoCalls : j <= k)
           => ~git.ahead /\ git.committed \subseteq git.pushed

\* C33: where a run reads the local-uncommitted path list (getLocalChanges
\* in runGlobalMode and runLocalMode, getUncommittedChanges in runSync) the
\* list holds exactly the paths of the lines of git status --porcelain,
\* each unchanged, also when the first line begins with a space
C33_PorcelainPathsUnchanged ==
  /\ pass.pc = "resolve" /\ pass.cmd \in {"global", "local"}
       => getLocalChanges(git) = git.dirty
  /\ pass.pc = "uncommitted" => getUncommittedChanges(git) = git.dirty
====
